---- MODULE Spec2Model ----
(***************************************************************************)
(* Model of chain-impl-mockchain/src/multiverse.rs: the Multiverse store    *)
(* (states_by_hash, states_by_chain_length, the shared Roots pin table),    *)
(* GCRoot creation and drop, add, gc, delete, get and get_from_root.        *)
(*                                                                         *)
(* A HashMap / BTreeMap is a function whose DOMAIN is the set of keys that  *)
(* are present.  An Option is a sequence of length 0 (None) or 1 (Some).    *)
(* An Arc<RwLock<Roots>> is the index of the table it points to, so that    *)
(* Arc::ptr_eq is equality of indices.  A panic is recorded in the          *)
(* variable panic and ends the run.                                         *)
(***************************************************************************)
EXTENDS Integers, Sequences, FiniteSets, Bags, TLC

\* multiverse.rs:38
SUFFIX_TO_KEEP == 50

\* ---- bounds of the model ------------------------------------------------
\* block ids an arbitrary caller draws from
NumIds == 3
\* add calls an arbitrary caller makes
MaxAdds == 4
\* GCRoot objects alive at the same time
MaxRoots == 2
\* length of the single chain of the test
MaxChain == 10000
\* Multiverse instances of the two-store program
NumStores == 2
\* transaction ids a caller of the utxo ledger draws from
NumTids == 2
\* length of the output lists and index lists a caller passes, besides the one
\* list of 255 outputs
MaxOuts == 2
\* Ledger values the program holds at the same time
MaxVersions == 3
\* threads that drop GCRoots, besides the writer thread
NumReleasers == 2
\* add calls the caller of the longer run makes
MaxAddsLong == 5
\* how far from 0 and from the maximum of u32 the chain lengths of the suffix test go
NearEdge == 60
\* (tid, outputs) pairs a caller collects into a Ledger
MaxItems == 2
\* Ledger values the program that passes short lists holds at the same time
MaxHeld == 4

BlockIds == 1..NumIds
\* chain lengths a caller draws from: two old ones and one that is farther than
\* SUFFIX_TO_KEEP ahead of both, so that gc has old buckets to visit
ChainLengths == {0, 1, 2 * SUFFIX_TO_KEEP + 20}
\* a ledger state, as far as the store looks at it: its chain_length()
\* (State = crate::ledger::Ledger)
State(c) == [chain_length |-> c]

\* ---- Option, maps ---------------------------------------------------------
None == << >>
Some(x) == << x >>

EmptyMap == << >>
Put(f, k, v) == [x \in (DOMAIN f) \cup {k} |-> IF x = k THEN v ELSE f[x]]
Remove(f, k) == [x \in (DOMAIN f) \ {k} |-> f[x]]
Lookup(f, k) == IF k \in DOMAIN f THEN Some(f[k]) ELSE None

Min(S) == CHOOSE x \in S : \A y \in S : x <= y
Max(S) == CHOOSE x \in S : \A y \in S : y <= x

\* every order in which the members of a HashSet can be iterated
Orders(S) == {q \in [1..Cardinality(S) -> S] : \A a, b \in 1..Cardinality(S) : q[a] = q[b] => a = b}

VARIABLES
    multiverse,   \* store index -> [states_by_hash, states_by_chain_length, roots]
    roots,        \* table index -> Roots.roots, the pin counts
    gcroots,      \* bag of the GCRoot objects that are alive: [hash, roots]
    pc,           \* position of the writer thread: "idle", "add" between the map updates of
                  \* add and its pin, or "gc" between scan and deletes
    gc_self,      \* the store add or gc runs on while pc is not "idle"
    adding,       \* the block id and the snapshot of the add in progress while pc = "add"
    garbage,      \* the rest of gc's garbage vector
    panic,        \* "none", or the panic that ended the run
    last,         \* the last completed call: its arguments and what it returned
    collected,    \* history: <<store, id>> pairs that gc has deleted
    adds,         \* history: the number of add calls so far
    i,            \* loop variable of the single-chain test
    ledgers,      \* utxo: the Ledger values the program holds, in the order it obtained them
    seen,         \* history: the content of each Ledger value when it was obtained
    nodes,        \* utxo: for each Ledger value, tid -> the TransactionUnspents object it holds
                  \* for tid, by identity: Ledgers derived from one another share objects
    ucall,        \* the last call on a utxo Ledger: its arguments and its result
    rw,           \* the RwLock of the pin table: the thread that holds it for writing, the readers,
                  \* and whether a panic under the write guard has poisoned it
    th,           \* thread -> where it is in add, gc or drop, and the id and count it works on
    arith         \* the suffix test of gc on 32-bit chain lengths: its operands and its result

vars == <<multiverse, roots, gcroots, pc, gc_self, adding, garbage, panic, last, collected, adds, i,
          ledgers, seen, nodes, ucall, rw, th, arith>>

\* the variables of the store and those of the utxo ledger
mvVars == <<multiverse, roots, gcroots, pc, gc_self, adding, garbage, last, collected, adds, i>>
utxoVars == <<ledgers, seen, nodes, ucall>>
lockVars == <<rw, th>>
arithVars == <<arith>>

\* ---- Multiverse::new ------------------------------------------------------
New(t) == [states_by_hash |-> EmptyMap, states_by_chain_length |-> EmptyMap, roots |-> t]

NoCall == [op |-> "none", self |-> 0, k |-> 0, st |-> None, root |-> None, ret |-> None]
Call(op, s, k, st, root, ret) == [op |-> op, self |-> s, k |-> k, st |-> st, root |-> root, ret |-> ret]

\* ---- GCRoot ---------------------------------------------------------------
\* a new that sets the count to 1 instead of raising it
GCRootNew_SetsOne(tbl, hash) == Put(tbl, hash, 1)

\* GCRoot::new: *roots.roots.entry(hash).or_insert(0) += 1
GCRootNew(tbl, hash) == Put(tbl, hash, (IF hash \in DOMAIN tbl THEN tbl[hash] ELSE 0) + 1)

GCRoot(hash, t) == [hash |-> hash, roots |-> t]

\* Deref for GCRoot
Deref(root) == root.hash

\* a drop that removes the entry whatever its count
GCRootDrop_AlwaysRemove(tbl, hash) ==
    IF hash \in DOMAIN tbl
    THEN [roots |-> Remove(tbl, hash), panic |-> "none"]
    ELSE [roots |-> tbl, panic |-> "drop: unreachable"]

\* Drop for GCRoot
GCRootDrop(tbl, hash) ==
    IF hash \in DOMAIN tbl
    THEN IF tbl[hash] > 1
         THEN [roots |-> Put(tbl, hash, tbl[hash] - 1), panic |-> "none"]
         ELSE [roots |-> Remove(tbl, hash), panic |-> "none"]
    ELSE [roots |-> tbl, panic |-> "drop: unreachable"]

\* ---- Multiverse -----------------------------------------------------------
\* an add that forgets the chain-length index
MultiverseAdd_NoBucket(mv, k, st) ==
    [mv EXCEPT !.states_by_hash = IF k \in DOMAIN @ THEN @ ELSE Put(@, k, st)]

\* Multiverse::add, the two map updates
MultiverseAdd(mv, k, st) ==
    LET c == st.chain_length
        bucket == IF c \in DOMAIN mv.states_by_chain_length
                  THEN mv.states_by_chain_length[c] ELSE {}
    IN [mv EXCEPT !.states_by_chain_length = Put(@, c, bucket \cup {k}),
                  !.states_by_hash = IF k \in DOMAIN @ THEN @ ELSE Put(@, k, st)]

\* if chain_length.0 + SUFFIX_TO_KEEP >= longest_chain.0 { break; }
\* The chain lengths of this model stay far below 2^32, where the sum is exact.
InSuffix(chain_length, longest_chain) == chain_length + SUFFIX_TO_KEEP >= longest_chain

\* ---- the suffix test on u32 --------------------------------------------------
\* SUFFIX_TO_KEEP is a u32, and so is the chain length it is added to.  A u32
\* is held as its two 16-bit halves <<hi, lo>>.
Half == 65536
U32(n) == <<n \div Half, n % Half>>

\* a + b on u32: the wrapped sum, and whether the sum is beyond the maximum
AddU32(a, b) ==
    LET lo == a[2] + b[2]
        hi == a[1] + b[1] + lo \div Half
    IN [overflow |-> hi >= Half, value |-> <<hi % Half, lo % Half>>]

\* a >= b on u32
GeU32(a, b) == a[1] > b[1] \/ (a[1] = b[1] /\ a[2] >= b[2])

\* the builds: with overflow checks (debug) an overflowing + panics, without
\* them (release) it wraps
Builds == {"debug", "release"}

\* chain_length.0 + SUFFIX_TO_KEEP >= longest_chain.0 as the build computes it
InSuffixU32(chain_length, longest_chain, build) ==
    LET sum == AddU32(chain_length, U32(SUFFIX_TO_KEEP))
    IN IF sum.overflow /\ build = "debug"
       THEN [panic |-> "gc: attempt to add with overflow", ret |-> FALSE]
       ELSE [panic |-> "none", ret |-> GeU32(sum.value, longest_chain)]

\* a threshold that leaves no gap: every old bucket is kept
KeepFrom_NoGap(chain_length, longest_chain) == chain_length

\* to_keep = ChainLength(chain_length.0 + (longest_chain.0 - chain_length.0) / 2)
KeepFrom(chain_length, longest_chain) ==
    chain_length + (longest_chain - chain_length) \div 2

\* a scan that does not look at the pin table
Unpinned_IgnorePins(hashes, tbl) == hashes

\* for k in hashes { if !roots.roots.contains_key(&k) { garbage.push(k.clone()) } }
Unpinned(hashes, tbl) == {k \in hashes : k \notin DOMAIN tbl}

\* the for loop of Multiverse::gc over the buckets not yet visited: every
\* garbage vector the scan can build (a HashSet is iterated in any order)
RECURSIVE Scan(_, _, _, _, _)
Scan(keys, sbcl, tbl, longest_chain, to_keep) ==
    IF keys = {} THEN {<< >>}
    ELSE
      LET chain_length == Min(keys)
          hashes == sbcl[chain_length]
      IN IF InSuffix(chain_length, longest_chain) THEN {<< >>}
         ELSE IF chain_length >= to_keep
         THEN Scan(keys \ {chain_length}, sbcl, tbl, longest_chain,
                   KeepFrom(chain_length, longest_chain))
         ELSE {q \o r : q \in Orders(Unpinned(hashes, tbl)),
                        r \in Scan(keys \ {chain_length}, sbcl, tbl, longest_chain, to_keep)}

\* the first block of Multiverse::gc, under the read lock of the pin table
GcScan(mv, tbl) ==
    IF DOMAIN mv.states_by_chain_length = {}
    THEN {[panic |-> "gc: unwrap", garbage |-> << >>]}
    ELSE {[panic |-> "none", garbage |-> g] :
            g \in Scan(DOMAIN mv.states_by_chain_length, mv.states_by_chain_length, tbl,
                       Max(DOMAIN mv.states_by_chain_length), 0)}

\* a delete that prunes the chain-length index and leaves states_by_hash alone
Delete_KeepsState(mv, k) ==
    IF k \notin DOMAIN mv.states_by_hash
    THEN [mv |-> mv, panic |-> "delete: unwrap"]
    ELSE LET c == mv.states_by_hash[k].chain_length
         IN [mv |-> [mv EXCEPT !.states_by_chain_length =
                        IF c \notin DOMAIN @ THEN @
                        ELSE IF @[c] \ {k} = {} THEN Remove(@, c)
                        ELSE Put(@, c, @[c] \ {k})],
             panic |-> "none"]

\* Multiverse::delete
Delete(mv, k) ==
    IF k \notin DOMAIN mv.states_by_hash
    THEN [mv |-> mv, panic |-> "delete: unwrap"]
    ELSE
      LET st == mv.states_by_hash[k]
          c == st.chain_length
          mv1 == [mv EXCEPT !.states_by_hash = Remove(@, k)]
      IN IF c \in DOMAIN mv.states_by_chain_length
         THEN IF k \notin mv.states_by_chain_length[c]
              THEN [mv |-> mv1, panic |-> "delete: assert"]
              ELSE [mv |-> [mv1 EXCEPT !.states_by_chain_length =
                                  IF @[c] \ {k} = {} THEN Remove(@, c)
                                  ELSE Put(@, c, @[c] \ {k})],
                    panic |-> "none"]
         ELSE [mv |-> mv1, panic |-> "delete: unreachable"]

\* for k in garbage { self.delete(&k) }: the store it leaves, the panic that
\* ended it, and the ids whose delete returned
RECURSIVE DeleteAll(_, _)
DeleteAll(mv, g) ==
    IF g = << >> THEN [mv |-> mv, panic |-> "none", deleted |-> {}]
    ELSE LET d == Delete(mv, Head(g))
             r == DeleteAll(d.mv, Tail(g))
         IN IF d.panic # "none" THEN [mv |-> d.mv, panic |-> d.panic, deleted |-> {}]
            ELSE [r EXCEPT !.deleted = @ \cup {Head(g)}]

\* Multiverse::get
Get(mv, k) == Lookup(mv.states_by_hash, k)

\* a get_from_root that compares the contents of the two pin tables
GetFromRoot_CompareContents(mv, root) ==
    IF roots[root.roots] # roots[mv.roots] THEN [ret |-> None, panic |-> "get_from_root: assert"]
    ELSE IF Lookup(mv.states_by_hash, root.hash) = None
         THEN [ret |-> None, panic |-> "get_from_root: unwrap"]
    ELSE [ret |-> Lookup(mv.states_by_hash, root.hash), panic |-> "none"]

\* Multiverse::get_from_root
GetFromRoot(mv, root) ==
    IF root.roots # mv.roots THEN [ret |-> None, panic |-> "get_from_root: assert"]
    ELSE IF Get(mv, Deref(root)) = None THEN [ret |-> None, panic |-> "get_from_root: unwrap"]
    ELSE [ret |-> Get(mv, Deref(root)), panic |-> "none"]

\* Multiverse::nr_states
NrStates(mv) == Cardinality(DOMAIN mv.states_by_hash)

\* ---- utxo.rs ---------------------------------------------------------------
\* FragmentId values of the model
Tids == 1..NumTids
\* TransactionIndex = u8
TransactionIndex == 0..255
\* the indices a caller draws from: two small ones and the largest u8
IndexArgs == {0, 1, 255}
\* Output<OutAddress> values of the model
Outputs == {"a", "b"}

\* imhamt::Hamt<DefaultHasher, K, V>, by its contract: lookup, insert-if-absent,
\* remove and replace, each returning a new map and leaving the receiver alone
HamtNew == EmptyMap
HamtLookup(h, k) == Lookup(h, k)
HamtInsert(h, k, v) ==
    IF k \in DOMAIN h THEN [err |-> "InsertError", hamt |-> h]
    ELSE [err |-> "none", hamt |-> Put(h, k, v)]
HamtRemove(h, k) ==
    IF k \notin DOMAIN h THEN [err |-> "RemoveError", hamt |-> h]
    ELSE [err |-> "none", hamt |-> Remove(h, k)]
HamtReplace(h, k, v) ==
    IF k \notin DOMAIN h THEN [err |-> "ReplaceError", hamt |-> h]
    ELSE [err |-> "none", hamt |-> Put(h, k, v)]

\* impl From<InsertError | UpdateError<()> | ReplaceError | RemoveError> for Error
ErrorFrom(e) == IF e = "InsertError" THEN "AlreadyExists" ELSE "TransactionNotFound"

\* what a call on a Ledger ends with: a panic, an Err(err), or Ok with the new
\* Ledger and the outputs it hands back
Panicked(p) == [panic |-> p, err |-> "none", ledger |-> None, outputs |-> << >>]
Err(e) == [panic |-> "none", err |-> e, ledger |-> None, outputs |-> << >>]
Ok(l, outputs) == [panic |-> "none", err |-> "none", ledger |-> Some(l), outputs |-> outputs]

\* for (index, output) in outs.iter() { b.insert(*index, output.clone()) }
RECURSIVE InsertAll(_, _)
InsertAll(b, outs) ==
    IF outs = << >> THEN b
    ELSE InsertAll(Put(b, Head(outs)[1], Head(outs)[2]), Tail(outs))

\* a from_outputs that keeps the first output of an index that occurs twice
FromOutputs_FirstWins(outs) ==
    IF ~(Len(outs) < 255) THEN [panic |-> "from_outputs: assert", b |-> EmptyMap]
    ELSE [panic |-> "none",
          b |-> InsertAll(EmptyMap, [n \in 1..Len(outs) |-> outs[Len(outs) + 1 - n]])]

\* TransactionUnspents::from_outputs
FromOutputs(outs) ==
    IF ~(Len(outs) < 255) THEN [panic |-> "from_outputs: assert", b |-> EmptyMap]
    ELSE [panic |-> "none", b |-> InsertAll(EmptyMap, outs)]

\* a remove_input without the assertion on the index
RemoveInput_NoAssert(self, index) ==
    IF index \notin DOMAIN self THEN [panic |-> "none", err |-> "IndexNotFound", t |-> self, o |-> None]
    ELSE [panic |-> "none", err |-> "none", t |-> Remove(self, index), o |-> Some(self[index])]

\* a remove_input that removes the index from the map of its receiver, without
\* the clone
RemoveInput_InPlace(self, index) ==
    IF ~(index < 255)
    THEN [panic |-> "remove_input: assert", err |-> "none", t |-> self, o |-> None, self |-> self]
    ELSE IF index \notin DOMAIN self
         THEN [panic |-> "none", err |-> "IndexNotFound", t |-> self, o |-> None, self |-> self]
    ELSE [panic |-> "none", err |-> "none", t |-> Remove(self, index), o |-> Some(self[index]),
          self |-> Remove(self, index)]

\* TransactionUnspents::remove_input: t is the clone of self.0 the index is
\* removed from, self the receiver as the call leaves it
RemoveInput(self, index) ==
    IF ~(index < 255)
    THEN [panic |-> "remove_input: assert", err |-> "none", t |-> self, o |-> None, self |-> self]
    ELSE IF index \notin DOMAIN self
         THEN [panic |-> "none", err |-> "IndexNotFound", t |-> self, o |-> None, self |-> self]
    ELSE [panic |-> "none", err |-> "none", t |-> Remove(self, index), o |-> Some(self[index]),
          self |-> self]

\* Ledger::new
LedgerNew == HamtNew

\* Ledger::get
LedgerGet(l, tid, index) ==
    IF HamtLookup(l, tid) = None THEN None
    ELSE IF index \notin DOMAIN HamtLookup(l, tid)[1] THEN None
    ELSE Some([fragment_id |-> tid, output_index |-> index,
               output |-> HamtLookup(l, tid)[1][index]])

\* the place of key k in the iteration of a Hamt: by its hash
DefaultHash(k) == (5 * k) % 7

\* Hamt::iter: the (key, value) pairs left to yield.  The order is fixed by the
\* content of the map and is not the order of the keys or of the insertions.
RECURSIVE HamtIter(_)
HamtIter(h) ==
    IF DOMAIN h = {} THEN << >>
    ELSE LET k == CHOOSE x \in DOMAIN h : \A y \in DOMAIN h : DefaultHash(x) <= DefaultHash(y)
         IN << <<k, h[k]>> >> \o HamtIter(Remove(h, k))

\* BTreeMap::iter on the outputs of a transaction: the (index, output) pairs
\* left to yield, by ascending index
RECURSIVE BTreeIter(_)
BTreeIter(b) ==
    IF DOMAIN b = {} THEN << >>
    ELSE << <<Min(DOMAIN b), b[Min(DOMAIN b)]>> >> \o BTreeIter(Remove(b, Min(DOMAIN b)))

\* Ledger::iter and Ledger::values
LedgerIter(l) == [hamt_iter |-> HamtIter(l), unspents_iter |-> None]
LedgerValues(l) == [hamt_iter |-> HamtIter(l), unspents_iter |-> None]

RECURSIVE IterNext(_)
\* a next that ends the iteration when the outputs of a transaction are
\* exhausted
IterNext_StopsAtExhausted(self) ==
    IF self.unspents_iter = None
    THEN IF self.hamt_iter = << >> THEN [item |-> None, self |-> self]
         ELSE LET unspent == Head(self.hamt_iter)
              IN IterNext([hamt_iter |-> Tail(self.hamt_iter),
                           unspents_iter |-> Some(<<unspent[1], BTreeIter(unspent[2])>>)])
    ELSE LET id == self.unspents_iter[1][1]
             o == self.unspents_iter[1][2]
         IN IF o = << >>
            THEN [item |-> None, self |-> [self EXCEPT !.unspents_iter = None]]
            ELSE [item |-> Some([fragment_id |-> id, output_index |-> Head(o)[1],
                                 output |-> Head(o)[2]]),
                  self |-> [self EXCEPT !.unspents_iter = Some(<<id, Tail(o)>>)]]

\* <Iter as Iterator>::next: the item, if any, and the iterator after the call
IterNext(self) ==
    IF self.unspents_iter = None
    THEN IF self.hamt_iter = << >> THEN [item |-> None, self |-> self]
         ELSE LET unspent == Head(self.hamt_iter)
              IN IterNext([hamt_iter |-> Tail(self.hamt_iter),
                           unspents_iter |-> Some(<<unspent[1], BTreeIter(unspent[2])>>)])
    ELSE LET id == self.unspents_iter[1][1]
             o == self.unspents_iter[1][2]
         IN IF o = << >>
            THEN IterNext([self EXCEPT !.unspents_iter = None])
            ELSE [item |-> Some([fragment_id |-> id, output_index |-> Head(o)[1],
                                 output |-> Head(o)[2]]),
                  self |-> [self EXCEPT !.unspents_iter = Some(<<id, Tail(o)>>)]]

\* <Values as Iterator>::next
RECURSIVE ValuesNext(_)
ValuesNext(self) ==
    IF self.unspents_iter = None
    THEN IF self.hamt_iter = << >> THEN [item |-> None, self |-> self]
         ELSE LET unspent == Head(self.hamt_iter)
              IN ValuesNext([hamt_iter |-> Tail(self.hamt_iter),
                             unspents_iter |-> Some(BTreeIter(unspent[2]))])
    ELSE LET o == self.unspents_iter[1]
         IN IF o = << >>
            THEN ValuesNext([self EXCEPT !.unspents_iter = None])
            ELSE [item |-> Some(Head(o)[2]),
                  self |-> [self EXCEPT !.unspents_iter = Some(Tail(o))]]

\* a caller that takes the items of an iterator until next returns None
RECURSIVE IterCollect(_)
IterCollect(self) ==
    LET r == IterNext(self)
    IN IF r.item = None THEN << >> ELSE r.item \o IterCollect(r.self)

RECURSIVE ValuesCollect(_)
ValuesCollect(self) ==
    LET r == ValuesNext(self)
    IN IF r.item = None THEN << >> ELSE r.item \o ValuesCollect(r.self)

\* Ledger::add
LedgerAdd(l, tid, outs) ==
    IF ~(Len(outs) < 255) THEN Panicked("add: assert")
    ELSE IF FromOutputs(outs).panic # "none" THEN Panicked(FromOutputs(outs).panic)
    ELSE LET next == HamtInsert(l, tid, FromOutputs(outs).b)
         IN IF next.err # "none" THEN Err(ErrorFrom(next.err))
            ELSE Ok(next.hamt, << >>)

\* for (tid, outputs) in iter { ledger = ledger.add(&tid, &outputs).unwrap(); }
\* unwrap panics on the first add that returns an Err, and a panic inside add
\* ends the loop as well
RECURSIVE FromIterLoop(_, _)
FromIterLoop(ledger, iter) ==
    IF iter = << >> THEN Ok(ledger, << >>)
    ELSE LET r == LedgerAdd(ledger, Head(iter)[1], Head(iter)[2])
         IN IF r.panic # "none" THEN r
            ELSE IF r.err # "none" THEN Panicked("from_iter: unwrap")
            ELSE FromIterLoop(r.ledger[1], Tail(iter))

\* impl FromIterator<(FragmentId, Vec<(TransactionIndex, Output)>)> for Ledger
FromIter(iter) == FromIterLoop(LedgerNew, iter)

\* the tail of remove and of remove_multiple:
\* if treemap.0.is_empty() { self.0.remove(tid)? } else { self.0.replace(tid, treemap)?.0 }
PruneOrReplace(l, tid, treemap, outputs) ==
    LET next == IF treemap = EmptyMap THEN HamtRemove(l, tid) ELSE HamtReplace(l, tid, treemap)
    IN IF next.err # "none" THEN Err(ErrorFrom(next.err))
       ELSE Ok(next.hamt, outputs)

\* Ledger::remove
LedgerRemove(l, tid, index) ==
    IF HamtLookup(l, tid) = None THEN Err("TransactionNotFound")
    ELSE LET r == RemoveInput(HamtLookup(l, tid)[1], index)
         IN IF r.panic # "none" THEN Panicked(r.panic)
            ELSE IF r.err # "none" THEN Err(r.err)
            ELSE PruneOrReplace(l, tid, r.t, r.o)

\* the TransactionUnspents that self.0.lookup(tid) returned to remove, as the
\* call out.remove_input(index) leaves it
RemoveLeaves(l, tid, index) ==
    IF HamtLookup(l, tid) = None THEN None
    ELSE Some(RemoveInput(HamtLookup(l, tid)[1], index).self)

\* for index in indices { let (t, o) = treemap.remove_input(*index)?; outputs.push(o); treemap = t }
RECURSIVE RemoveInputs(_, _, _)
RemoveInputs(treemap, indices, outputs) ==
    IF indices = << >> THEN [panic |-> "none", err |-> "none", t |-> treemap, o |-> outputs]
    ELSE LET r == RemoveInput(treemap, Head(indices))
         IN IF r.panic # "none" \/ r.err # "none"
            THEN [panic |-> r.panic, err |-> r.err, t |-> treemap, o |-> outputs]
            ELSE RemoveInputs(r.t, Tail(indices), outputs \o r.o)

\* Ledger::remove_multiple
LedgerRemoveMultiple(l, tid, indices) ==
    IF HamtLookup(l, tid) = None THEN Err("TransactionNotFound")
    ELSE LET r == RemoveInputs(HamtLookup(l, tid)[1], indices, << >>)
         IN IF r.panic # "none" THEN Panicked(r.panic)
            ELSE IF r.err # "none" THEN Err(r.err)
            ELSE PruneOrReplace(l, tid, r.t, r.o)

\* the TransactionUnspents that self.0.lookup(tid) returned to remove_multiple:
\* the loop works on treemap = out.clone() and on the values remove_input
\* returns, and calls nothing on out
RemoveMultipleLeaves(l, tid, indices) == HamtLookup(l, tid)

\* an object no Ledger value holds
Fresh(ns) == 1 + Max({0} \cup UNION {{ns[w][t] : t \in DOMAIN ns[w]} : w \in DOMAIN ns})

\* the objects of the Ledger next that insert, replace or remove of tid on the
\* Hamt of version v returned: the value put at tid is a new object, every
\* other entry is shared with version v
Shared(ns, v, tid, next) ==
    [t \in DOMAIN next |-> IF t = tid THEN Fresh(ns) ELSE ns[v][t]]

\* the content of the Ledger values the program holds, after a call has left
\* the object that version v holds for tid as out: every value that holds the
\* object sees what it holds now
Written(ls, ns, v, tid, out) ==
    IF out = None THEN ls
    ELSE [w \in DOMAIN ls |->
             [t \in DOMAIN ls[w] |-> IF ns[w][t] = ns[v][tid] THEN out[1] ELSE ls[w][t]]]

\* the Ledger values the program holds after a call on ls[v] has returned r:
\* the receiver is borrowed (&self), an Ok carries a new Ledger
Keep(ls, v, r) == IF r.ledger = None THEN ls ELSE Append(ls, r.ledger[1])

NoUCall == [op |-> "none", self |-> 0, tid |-> 0, arg |-> None, res |-> Err("none")]
UCall(op, v, tid, arg, res) == [op |-> op, self |-> v, tid |-> tid, arg |-> arg, res |-> res]

InitLedgers ==
    /\ ledgers = << LedgerNew >>
    /\ seen = << LedgerNew >>
    /\ nodes = << EmptyMap >>
    /\ ucall = NoUCall

\* ---- the RwLock of the pin table, and the threads ----------------------------
\* thread 0 is the writer thread (add, gc), the others drop GCRoots
Writer == 0
Releasers == 1..NumReleasers
Threads == {Writer} \cup Releasers
NoThread == -1

\* a write() that does not wait for the lock to be free
WriteLockFree_NoExclusion(l) == TRUE

\* roots.write(): the lock is granted when no thread holds it
WriteLockFree(l) == l.writer = NoThread /\ l.readers = {}

\* roots.read(): the lock is granted when no thread holds it for writing
ReadLockFree(l) == l.writer = NoThread

Idle == [pc |-> "idle", hash |-> 0, cnt |-> 0]

\* where a thread is after a panic has unwound it
Unwound == "unwound"

\* the panics of unwrap() on the PoisonError of write() and of read()
PoisonedWrite == "write: PoisonError"
PoisonedRead == "read: PoisonError"

\* the entry of hash as a thread found it under the lock
Found(hash, cnt) == IF cnt = 0 THEN EmptyMap ELSE Put(EmptyMap, hash, cnt)

\* the table after a thread has written back the entry of hash
WriteBack(tbl, hash, entry) ==
    IF hash \in DOMAIN entry THEN Put(tbl, hash, entry[hash]) ELSE Remove(tbl, hash)

InitLocks ==
    /\ rw = [writer |-> NoThread, readers |-> {}, poisoned |-> FALSE]
    /\ th = [t \in Threads |-> Idle]

\* no suffix test has been set up
NoTest == [chain_length |-> << >>, longest_chain |-> << >>, build |-> "none", res |-> None]

\* ---- the program: one writer thread, GCRoots dropped on any thread ---------
InitProgram ==
    /\ multiverse = [s \in {1} |-> New(s)]
    /\ roots = [t \in {1} |-> EmptyMap]
    /\ gcroots = EmptyBag
    /\ pc = "idle"
    /\ gc_self = 0
    /\ adding = None
    /\ garbage = << >>
    /\ panic = "none"
    /\ last = NoCall
    /\ collected = {}
    /\ adds = 0
    /\ i = 0
    /\ InitLedgers
    /\ InitLocks

Init ==
    /\ InitProgram
    /\ arith = NoTest

\* multiverse.add(k, st) up to the call of GCRoot::new: the two map updates.
\* GCRoot::new then waits for the write lock of the pin table, and the drops
\* of other threads go on meanwhile.
AddMaps(s, k, st) ==
    /\ panic = "none"
    /\ pc = "idle"
    /\ multiverse' = [multiverse EXCEPT ![s] = MultiverseAdd(@, k, st)]
    /\ pc' = "add"
    /\ gc_self' = s
    /\ adding' = Some([k |-> k, st |-> st])
    /\ adds' = adds + 1
    /\ UNCHANGED <<roots, gcroots, garbage, panic, last, collected>>
    /\ UNCHANGED utxoVars
    /\ UNCHANGED lockVars
    /\ UNCHANGED arithVars

\* GCRoot::new under the write lock, and add returns the root, which is kept alive
AddPin ==
    /\ panic = "none"
    /\ pc = "add"
    /\ LET t == multiverse[gc_self].roots
           k == adding[1].k
       IN /\ roots' = [roots EXCEPT ![t] = GCRootNew(@, k)]
          /\ gcroots' = gcroots (+) SetToBag({GCRoot(k, t)})
          /\ last' = Call("add", gc_self, k, Some(adding[1].st), Some(GCRoot(k, t)), None)
    /\ pc' = "idle"
    /\ gc_self' = 0
    /\ adding' = None
    /\ UNCHANGED <<multiverse, garbage, panic, collected, adds, i>>
    /\ UNCHANGED utxoVars
    /\ UNCHANGED lockVars
    /\ UNCHANGED arithVars

\* drop(root) of a live GCRoot, on any thread
DropRoot(root) ==
    /\ panic = "none"
    /\ BagIn(root, gcroots)
    /\ LET r == GCRootDrop(roots[root.roots], root.hash)
       IN /\ roots' = [roots EXCEPT ![root.roots] = r.roots]
          /\ panic' = r.panic
    /\ gcroots' = gcroots (-) SetToBag({root})
    /\ last' = IF pc = "idle" THEN Call("drop", 0, root.hash, None, Some(root), None) ELSE last
    /\ UNCHANGED <<multiverse, pc, gc_self, adding, garbage, collected, adds, i>>
    /\ UNCHANGED utxoVars
    /\ UNCHANGED lockVars
    /\ UNCHANGED arithVars

\* multiverse.gc(), up to the end of the scan: the garbage vector is complete
\* and the read lock released
GcCall(s) ==
    /\ panic = "none"
    /\ pc = "idle"
    /\ \E o \in GcScan(multiverse[s], roots[multiverse[s].roots]) :
          /\ panic' = o.panic
          /\ garbage' = o.garbage
          /\ pc' = IF o.panic = "none" /\ o.garbage # << >> THEN "gc" ELSE "idle"
          /\ gc_self' = IF o.panic = "none" /\ o.garbage # << >> THEN s ELSE 0
          /\ last' = IF o.panic = "none" /\ o.garbage = << >>
                     THEN Call("gc", s, 0, None, None, None) ELSE last
    /\ UNCHANGED <<multiverse, roots, gcroots, adding, collected, adds, i>>
    /\ UNCHANGED utxoVars
    /\ UNCHANGED lockVars
    /\ UNCHANGED arithVars

\* the loop  for k in garbage { self.delete(&k) }  of Multiverse::gc, which
\* ends at the first delete that panics
GcDelete ==
    /\ panic = "none"
    /\ pc = "gc"
    /\ LET d == DeleteAll(multiverse[gc_self], garbage)
       IN /\ multiverse' = [multiverse EXCEPT ![gc_self] = d.mv]
          /\ panic' = d.panic
          /\ collected' = collected \cup {<<gc_self, k>> : k \in d.deleted}
          /\ last' = IF d.panic = "none" THEN Call("gc", gc_self, 0, None, None, None) ELSE last
    /\ garbage' = << >>
    /\ pc' = "idle"
    /\ gc_self' = 0
    /\ UNCHANGED <<roots, gcroots, adding, adds, i>>
    /\ UNCHANGED utxoVars
    /\ UNCHANGED lockVars
    /\ UNCHANGED arithVars

\* multiverse.get_from_root(&root)
GetFromRootCall(s, root) ==
    /\ panic = "none"
    /\ pc = "idle"
    /\ BagIn(root, gcroots)
    /\ LET r == GetFromRoot(multiverse[s], root)
       IN /\ panic' = r.panic
          /\ last' = Call("get_from_root", s, Deref(root), None, Some(root), r.ret)
    /\ UNCHANGED <<multiverse, roots, gcroots, pc, gc_self, adding, garbage, collected, adds, i>>
    /\ UNCHANGED utxoVars
    /\ UNCHANGED lockVars
    /\ UNCHANGED arithVars

LiveRoots == BagToSet(gcroots)

\* the pin count of k in table t, 0 when the table has no entry
PinCount(t, k) == IF k \in DOMAIN roots[t] THEN roots[t][k] ELSE 0

\* an arbitrary caller of add, within the bounds of the model
Caller(s, k, c) ==
    /\ adds < MaxAdds
    /\ BagCardinality(gcroots) < MaxRoots
    /\ AddMaps(s, k, State(c))
    /\ UNCHANGED i

Next ==
    \/ \E k \in BlockIds, c \in ChainLengths : Caller(1, k, c)
    \/ AddPin
    \/ \E root \in LiveRoots : DropRoot(root)
    \/ GcCall(1)
    \/ GcDelete
    \/ \E root \in LiveRoots : GetFromRootCall(1, root)

Spec == Init /\ [][Next]_vars

\* ---- the test test::multiverse: one chain, gc after every block ------------
\* multiverse.add(genesis_block.id(), genesis_state.clone()); the genesis block
\* has id 0 and block i has id i
TestGenesis ==
    /\ last.op = "none"
    /\ AddMaps(1, 0, State(0))
    /\ UNCHANGED i

\* the end of that statement drops the GCRoot it returned
TestGenesisDrop ==
    /\ i = 0
    /\ last.op = "add"
    /\ DropRoot(GCRoot(0, multiverse[1].roots))

\* for i in 1..: state = apply_block(..); multiverse.add(block.id(), state.clone())
TestAdd ==
    /\ i < MaxChain
    /\ last.op = (IF i = 0 THEN "drop" ELSE "gc")
    /\ i' = i + 1
    /\ AddMaps(1, i + 1, State(i + 1))

\* _root = Some(..) drops the root of the block before
TestDropOld ==
    /\ i >= 2
    /\ last.op = "add"
    /\ DropRoot(GCRoot(i - 1, multiverse[1].roots))

\* multiverse.gc()
TestGc ==
    /\ i >= 1
    /\ last.op = (IF i = 1 THEN "add" ELSE "drop")
    /\ GcCall(1)

\* ((i as f32).log2()) as usize
RECURSIVE Log2Floor(_)
Log2Floor(n) == IF n <= 1 THEN 0 ELSE 1 + Log2Floor(n \div 2)

\* the bound the test asserts after gc
TestBound(n) == SUFFIX_TO_KEEP + Log2Floor(n)

NextChain ==
    \/ TestGenesis
    \/ TestGenesisDrop
    \/ TestAdd
    \/ AddPin
    \/ TestDropOld
    \/ TestGc
    \/ GcDelete

SpecChain == Init /\ [][NextChain]_vars

\* ---- a program with several stores -----------------------------------------
InitStores ==
    /\ multiverse = [s \in 1..NumStores |-> New(s)]
    /\ roots = [t \in 1..NumStores |-> EmptyMap]
    /\ gcroots = EmptyBag
    /\ pc = "idle"
    /\ gc_self = 0
    /\ adding = None
    /\ garbage = << >>
    /\ panic = "none"
    /\ last = NoCall
    /\ collected = {}
    /\ adds = 0
    /\ i = 0
    /\ InitLedgers
    /\ InitLocks
    /\ arith = NoTest

\* the stores are given the same block id
NextStores ==
    \/ \E s \in DOMAIN multiverse, c \in ChainLengths : Caller(s, 1, c)
    \/ AddPin
    \/ \E root \in LiveRoots : DropRoot(root)
    \/ \E s \in DOMAIN multiverse, root \in LiveRoots : GetFromRootCall(s, root)

SpecStores == InitStores /\ [][NextStores]_vars

\* ---- a program that calls the utxo ledger ----------------------------------
\* the output lists a caller passes: the short ones, and one of 255 outputs
\* with the indices 0..254
LongOuts == [n \in 1..255 |-> <<n - 1, "a">>]
RECURSIVE SeqsUpTo(_, _)
SeqsUpTo(S, n) ==
    IF n = 0 THEN {<< >>}
    ELSE SeqsUpTo(S, n - 1) \cup {Append(q, x) : q \in {p \in SeqsUpTo(S, n - 1) : Len(p) = n - 1}, x \in S}
OutsArgs == SeqsUpTo(IndexArgs \X Outputs, MaxOuts) \cup {LongOuts}
IndicesArgs == SeqsUpTo(IndexArgs, MaxOuts)

\* the Ledger values a caller that holds fewer than max of them calls on
Receivers(max) == IF Len(ledgers) < max THEN DOMAIN ledgers ELSE {}

\* a call on the Ledger ledgers[v] that ends with r and leaves the object it
\* looked up at tid as out
Returned(op, v, tid, arg, r, out) ==
    /\ panic = "none"
    /\ panic' = r.panic
    /\ ledgers' = Keep(Written(ledgers, nodes, v, tid, out), v, r)
    /\ seen' = IF r.ledger = None THEN seen ELSE Append(seen, r.ledger[1])
    /\ nodes' = IF r.ledger = None THEN nodes ELSE Append(nodes, Shared(nodes, v, tid, r.ledger[1]))
    /\ ucall' = UCall(op, v, tid, arg, r)
    /\ UNCHANGED mvVars
    /\ UNCHANGED lockVars
    /\ UNCHANGED arithVars

\* ledgers[v].add(&tid, &outs)
UAdd(v, tid, outs) == Returned("add", v, tid, outs, LedgerAdd(ledgers[v], tid, outs), None)

\* ledgers[v].remove(&tid, index)
URemove(v, tid, index) ==
    Returned("remove", v, tid, index, LedgerRemove(ledgers[v], tid, index),
             RemoveLeaves(ledgers[v], tid, index))

\* ledgers[v].remove_multiple(&tid, &indices)
URemoveMultiple(v, tid, indices) ==
    Returned("remove_multiple", v, tid, indices, LedgerRemoveMultiple(ledgers[v], tid, indices),
             RemoveMultipleLeaves(ledgers[v], tid, indices))

\* a call on the Ledger ledgers[v] that borrows it and yields the items
Enumerated(op, v, items) ==
    /\ panic = "none"
    /\ ucall' = UCall(op, v, 0, None, Ok(ledgers[v], items))
    /\ UNCHANGED <<panic, ledgers, seen, nodes>>
    /\ UNCHANGED mvVars
    /\ UNCHANGED lockVars
    /\ UNCHANGED arithVars

\* ledgers[v].iter().collect()
UIter(v) == Enumerated("iter", v, IterCollect(LedgerIter(ledgers[v])))

\* ledgers[v].values().collect()
UValues(v) == Enumerated("values", v, ValuesCollect(LedgerValues(ledgers[v])))

NextUtxo ==
    \/ \E v \in Receivers(MaxVersions), tid \in Tids, outs \in OutsArgs : UAdd(v, tid, outs)
    \/ \E v \in Receivers(MaxVersions), tid \in Tids, index \in IndexArgs : URemove(v, tid, index)
    \/ \E v \in Receivers(MaxVersions), tid \in Tids, indices \in IndicesArgs :
          URemoveMultiple(v, tid, indices)

SpecUtxo == Init /\ [][NextUtxo]_vars

\* ---- a program that keeps more Ledger values and passes short lists -----------
FewOuts == {<< <<0, "a">> >>, << <<0, "a">>, <<1, "b">> >>}
FewIndices == {0, 1}
FewIndexLists == SeqsUpTo(FewIndices, 2)

NextVersions ==
    \/ \E v \in Receivers(MaxHeld), tid \in Tids, outs \in FewOuts : UAdd(v, tid, outs)
    \/ \E v \in Receivers(MaxHeld), tid \in Tids, index \in FewIndices : URemove(v, tid, index)
    \/ \E v \in Receivers(MaxHeld), tid \in Tids, indices \in FewIndexLists :
          URemoveMultiple(v, tid, indices)

SpecVersions == Init /\ [][NextVersions]_vars

\* ---- the suffix test of gc on chain lengths near the ends of u32 -------------
\* the chain lengths of the test, as u32: up to NearEdge from 0 and from the
\* maximum
U32Args == {U32(n) : n \in 0..NearEdge} \cup {<<Half - 1, Half - 1 - n>> : n \in 0..NearEdge}

\* gc has found the longest chain and comes to a bucket that is not longer
InitWidth ==
    /\ InitProgram
    /\ \E c \in U32Args, l \in U32Args, b \in Builds :
          /\ GeU32(l, c)
          /\ arith = [chain_length |-> c, longest_chain |-> l, build |-> b, res |-> None]

\* if chain_length.0 + SUFFIX_TO_KEEP >= longest_chain.0
GcSuffixTest ==
    /\ panic = "none"
    /\ arith.res = None
    /\ LET r == InSuffixU32(arith.chain_length, arith.longest_chain, arith.build)
       IN /\ arith' = [arith EXCEPT !.res = Some(r.ret)]
          /\ panic' = r.panic
    /\ UNCHANGED mvVars
    /\ UNCHANGED utxoVars
    /\ UNCHANGED lockVars

NextWidth == GcSuffixTest

SpecWidth == InitWidth /\ [][NextWidth]_vars

\* the output lists of the pairs a caller collects, and the sequences of pairs
ItemOuts == {<< <<0, "a">> >>, << <<0, "b">> >>, << <<1, "a">> >>}
FromIterArgs == SeqsUpTo(Tids \X ItemOuts, MaxItems)

\* items.into_iter().collect::<Ledger>(): the program holds the new Ledger, or
\* the unwrap of from_iter panics
UFromIter(items) ==
    /\ panic = "none"
    /\ Len(ledgers) < MaxVersions
    /\ LET r == FromIter(items)
       IN /\ panic' = r.panic
          /\ ledgers' = IF r.ledger = None THEN ledgers ELSE Append(ledgers, r.ledger[1])
          /\ seen' = IF r.ledger = None THEN seen ELSE Append(seen, r.ledger[1])
          /\ nodes' = IF r.ledger = None THEN nodes
                      ELSE Append(nodes, [t \in DOMAIN r.ledger[1] |-> Fresh(nodes) + t - 1])
          /\ ucall' = UCall("from_iter", 0, 0, items, r)
    /\ UNCHANGED mvVars
    /\ UNCHANGED lockVars
    /\ UNCHANGED arithVars

\* the same program with callers that collect Ledgers and enumerate the
\* Ledgers they hold
NextEnum ==
    \/ NextUtxo
    \/ \E items \in FromIterArgs : UFromIter(items)
    \/ \E v \in DOMAIN ledgers : UIter(v)
    \/ \E v \in DOMAIN ledgers : UValues(v)

SpecEnum == Init /\ [][NextEnum]_vars

\* ---- the longer run of the one-store program ---------------------------------
CallerLong(s, k, c) ==
    /\ adds < MaxAddsLong
    /\ BagCardinality(gcroots) < MaxRoots
    /\ AddMaps(s, k, State(c))
    /\ UNCHANGED i

NextLong ==
    \/ \E k \in BlockIds, c \in ChainLengths : CallerLong(1, k, c)
    \/ AddPin
    \/ \E root \in LiveRoots : DropRoot(root)
    \/ GcCall(1)
    \/ GcDelete
    \/ \E root \in LiveRoots : GetFromRootCall(1, root)

SpecLong == Init /\ [][NextLong]_vars

\* ---- the one-store program, at the steps of the lock ---------------------------
\* a panic ends the thread it happens on: the thread unwinds, which drops the
\* guards it holds, and the other threads go on
\* what every step of a thread leaves alone
LockFrame == UNCHANGED <<pc, gc_self, adding, last, i>> /\ UNCHANGED utxoVars /\ UNCHANGED arithVars

\* the chain length of block k on the one branch of this program: the blocks
\* follow each other from length 0, and the last one is far ahead of the rest
ChainOf(k) == IF k = NumIds THEN 2 * SUFFIX_TO_KEEP + 20 ELSE k - 1

\* the GCRoots that exist: the live ones, those a thread is dropping and the
\* one GCRoot::new is building.  A thread that a panic has unwound holds none:
\* the GCRoot it was dropping is gone, and GCRoot::new has built none
Existing ==
    BagCardinality(gcroots)
    + Cardinality({t \in Threads : th[t].pc \notin {"idle", Unwound} /\ th[t].hash # 0})

\* Multiverse::add up to the call of GCRoot::new: the two map updates
LAddMaps(k, st) ==
    /\ th[Writer].pc = "idle"
    /\ adds < MaxAdds
    /\ Existing < MaxRoots
    /\ multiverse' = [multiverse EXCEPT ![1] = MultiverseAdd(@, k, st)]
    /\ th' = [th EXCEPT ![Writer] = [pc |-> "new_lock", hash |-> k, cnt |-> 0]]
    /\ adds' = adds + 1
    /\ UNCHANGED <<roots, gcroots, garbage, panic, rw, collected>>
    /\ LockFrame

\* GCRoot::new: let mut roots = roots.write().unwrap(); on a poisoned lock
\* write() returns an Err and unwrap panics: add ends with its maps updated,
\* no pin and no GCRoot
LNewLock ==
    /\ th[Writer].pc = "new_lock"
    /\ WriteLockFree(rw)
    /\ IF rw.poisoned
       THEN /\ panic' = PoisonedWrite
            /\ th' = [th EXCEPT ![Writer].pc = Unwound]
            /\ UNCHANGED rw
       ELSE /\ rw' = [rw EXCEPT !.writer = Writer]
            /\ th' = [th EXCEPT ![Writer].pc = "new_load"]
            /\ UNCHANGED panic
    /\ UNCHANGED <<multiverse, roots, gcroots, garbage, adds, collected>>
    /\ LockFrame

\* roots.roots.entry(hash).or_insert(0)
LNewLoad ==
    /\ th[Writer].pc = "new_load"
    /\ th' = [th EXCEPT ![Writer].pc = "new_store",
                        ![Writer].cnt = PinCount(1, th[Writer].hash)]
    /\ UNCHANGED <<multiverse, roots, gcroots, garbage, panic, adds, rw, collected>>
    /\ LockFrame

\* *entry += 1
LNewStore ==
    /\ th[Writer].pc = "new_store"
    /\ LET hash == th[Writer].hash
       IN roots' = [roots EXCEPT ![1] =
                       WriteBack(@, hash, GCRootNew(Found(hash, th[Writer].cnt), hash))]
    /\ th' = [th EXCEPT ![Writer].pc = "new_unlock"]
    /\ UNCHANGED <<multiverse, gcroots, garbage, panic, adds, rw, collected>>
    /\ LockFrame

\* the end of the block releases the lock; add returns the GCRoot
LNewUnlock ==
    /\ th[Writer].pc = "new_unlock"
    /\ rw' = [rw EXCEPT !.writer = NoThread]
    /\ gcroots' = gcroots (+) SetToBag({GCRoot(th[Writer].hash, 1)})
    /\ th' = [th EXCEPT ![Writer] = Idle]
    /\ UNCHANGED <<multiverse, roots, garbage, panic, adds, collected>>
    /\ LockFrame

\* Multiverse::gc is called: let mut garbage = vec![]
LGcStart ==
    /\ th[Writer].pc = "idle"
    /\ th' = [th EXCEPT ![Writer].pc = "gc_lock"]
    /\ UNCHANGED <<multiverse, roots, gcroots, garbage, panic, adds, rw, collected>>
    /\ LockFrame

\* let roots = self.roots.read().unwrap(); on a poisoned lock unwrap panics
LGcLock ==
    /\ th[Writer].pc = "gc_lock"
    /\ ReadLockFree(rw)
    /\ IF rw.poisoned
       THEN /\ panic' = PoisonedRead
            /\ th' = [th EXCEPT ![Writer].pc = Unwound]
            /\ UNCHANGED rw
       ELSE /\ rw' = [rw EXCEPT !.readers = @ \cup {Writer}]
            /\ th' = [th EXCEPT ![Writer].pc = "gc_scan"]
            /\ UNCHANGED panic
    /\ UNCHANGED <<multiverse, roots, gcroots, garbage, adds, collected>>
    /\ LockFrame

\* the scan, with the table as it is under the read lock; a panic unwinds the
\* writer thread, which drops the read guard (a read guard does not poison)
LGcScan ==
    /\ th[Writer].pc = "gc_scan"
    /\ \E o \in GcScan(multiverse[1], roots[1]) :
          /\ panic' = o.panic
          /\ garbage' = o.garbage
          /\ th' = [th EXCEPT ![Writer].pc = IF o.panic = "none" THEN "gc_unlock" ELSE Unwound]
          /\ rw' = IF o.panic = "none" THEN rw ELSE [rw EXCEPT !.readers = @ \ {Writer}]
    /\ UNCHANGED <<multiverse, roots, gcroots, adds, collected>>
    /\ LockFrame

\* the end of the block releases the read lock
LGcUnlock ==
    /\ th[Writer].pc = "gc_unlock"
    /\ rw' = [rw EXCEPT !.readers = @ \ {Writer}]
    /\ th' = [th EXCEPT ![Writer].pc = "gc_delete"]
    /\ UNCHANGED <<multiverse, roots, gcroots, garbage, panic, adds, collected>>
    /\ LockFrame

\* for k in garbage { self.delete(&k) }
LGcDelete ==
    /\ th[Writer].pc = "gc_delete"
    /\ LET d == DeleteAll(multiverse[1], garbage)
       IN /\ multiverse' = [multiverse EXCEPT ![1] = d.mv]
          /\ panic' = d.panic
          /\ collected' = collected \cup {<<1, k>> : k \in d.deleted}
          /\ th' = [th EXCEPT ![Writer] = IF d.panic = "none" THEN Idle ELSE [Idle EXCEPT !.pc = Unwound]]
    /\ garbage' = << >>
    /\ UNCHANGED <<roots, gcroots, adds, rw>>
    /\ LockFrame

\* thread t starts to drop a live GCRoot
LDropStart(t, root) ==
    /\ th[t].pc = "idle"
    /\ BagIn(root, gcroots)
    /\ gcroots' = gcroots (-) SetToBag({root})
    /\ th' = [th EXCEPT ![t] = [pc |-> "drop_lock", hash |-> root.hash, cnt |-> 0]]
    /\ UNCHANGED <<multiverse, roots, garbage, panic, adds, rw, collected>>
    /\ LockFrame

\* drop: let mut roots = self.roots.write().unwrap(); on a poisoned lock
\* unwrap panics and the pin of the root stays in the table
LDropLock(t) ==
    /\ th[t].pc = "drop_lock"
    /\ WriteLockFree(rw)
    /\ IF rw.poisoned
       THEN /\ panic' = PoisonedWrite
            /\ th' = [th EXCEPT ![t].pc = Unwound]
            /\ UNCHANGED rw
       ELSE /\ rw' = [rw EXCEPT !.writer = t]
            /\ th' = [th EXCEPT ![t].pc = "drop_load"]
            /\ UNCHANGED panic
    /\ UNCHANGED <<multiverse, roots, gcroots, garbage, adds, collected>>
    /\ LockFrame

\* match roots.roots.entry(self.hash.clone())
LDropLoad(t) ==
    /\ th[t].pc = "drop_load"
    /\ th' = [th EXCEPT ![t].pc = "drop_store", ![t].cnt = PinCount(1, th[t].hash)]
    /\ UNCHANGED <<multiverse, roots, gcroots, garbage, panic, adds, rw, collected>>
    /\ LockFrame

\* Occupied: *entry.get_mut() -= 1 or entry.remove_entry(); Vacant:
\* unreachable!(), a panic under the write guard: the unwinding thread drops
\* the guard, which releases the lock and poisons it
LDropStore(t) ==
    /\ th[t].pc = "drop_store"
    /\ LET hash == th[t].hash
           r == GCRootDrop(Found(hash, th[t].cnt), hash)
       IN /\ roots' = [roots EXCEPT ![1] = IF r.panic = "none" THEN WriteBack(@, hash, r.roots) ELSE @]
          /\ panic' = IF r.panic = "none" THEN panic ELSE r.panic
          /\ th' = [th EXCEPT ![t].pc = IF r.panic = "none" THEN "drop_unlock" ELSE Unwound]
          /\ rw' = IF r.panic = "none" THEN rw ELSE [rw EXCEPT !.writer = NoThread, !.poisoned = TRUE]
    /\ UNCHANGED <<multiverse, gcroots, garbage, adds, collected>>
    /\ LockFrame

\* the end of drop releases the lock
LDropUnlock(t) ==
    /\ th[t].pc = "drop_unlock"
    /\ rw' = [rw EXCEPT !.writer = NoThread]
    /\ th' = [th EXCEPT ![t] = Idle]
    /\ UNCHANGED <<multiverse, roots, gcroots, garbage, panic, adds, collected>>
    /\ LockFrame

NextLocks ==
    \/ \E k \in BlockIds : LAddMaps(k, State(ChainOf(k)))
    \/ LNewLock
    \/ LNewLoad
    \/ LNewStore
    \/ LNewUnlock
    \/ LGcStart
    \/ LGcLock
    \/ LGcScan
    \/ LGcUnlock
    \/ LGcDelete
    \/ \E t \in Releasers, root \in LiveRoots : LDropStart(t, root)
    \/ \E t \in Releasers : LDropLock(t)
    \/ \E t \in Releasers : LDropLoad(t)
    \/ \E t \in Releasers : LDropStore(t)
    \/ \E t \in Releasers : LDropUnlock(t)

SpecLocks == Init /\ [][NextLocks]_vars

\* the steps of the writer thread within add and gc, and of thread t within
\* a drop
WriterStep ==
    \/ LNewLock
    \/ LNewLoad
    \/ LNewStore
    \/ LNewUnlock
    \/ LGcLock
    \/ LGcScan
    \/ LGcUnlock
    \/ LGcDelete

DropStep(t) ==
    \/ LDropLock(t)
    \/ LDropLoad(t)
    \/ LDropStore(t)
    \/ LDropUnlock(t)

\* scheduling: a thread that can go on taking a step of an operation it has
\* begun takes it in the end.  A thread that asks for the lock can take its step
\* only while the lock is free: std::sync::RwLock guarantees no priority policy,
\* so a thread that finds the lock free again and again, and taken again in
\* between, is not promised the lock.  Whether add, gc or a drop is called at
\* all is left to the callers.
FairLocks ==
    /\ WF_vars(WriterStep)
    /\ \A t \in Releasers : WF_vars(DropStep(t))

SpecLocksFair == SpecLocks /\ FairLocks

\* ---- the claims -----------------------------------------------------------
Stores == DOMAIN multiverse

\* the ids gc would push to garbage if no id were pinned
Reapable(mv) == UNION {{g[n] : n \in 1..Len(g)} : g \in {o.garbage : o \in GcScan(mv, EmptyMap)}}

\* the ids a store or its pin table knows
KnownIds(s) ==
    DOMAIN multiverse[s].states_by_hash
    \cup UNION {multiverse[s].states_by_chain_length[c] : c \in DOMAIN multiverse[s].states_by_chain_length}
    \cup DOMAIN roots[multiverse[s].roots]
    \cup {r.hash : r \in LiveRoots}

\* C1: every block id with an entry in the pin table, and every block id of a
\* live GCRoot, is present in states_by_hash of its store, in every reachable
\* state (between the scan and the deletes of gc too)
C1_PinnedNeverCollected ==
    \A s \in Stores :
        /\ \A k \in DOMAIN roots[multiverse[s].roots] : k \in DOMAIN multiverse[s].states_by_hash
        /\ \A r \in LiveRoots :
              r.roots = multiverse[s].roots => Get(multiverse[s], r.hash) # None

\* C2: a block id is in the bucket of chain length c if and only if
\* states_by_hash maps it to a state of chain length c, and no bucket is empty
C2_IndexConsistent ==
    \A s \in Stores :
        LET mv == multiverse[s]
        IN /\ \A c \in DOMAIN mv.states_by_chain_length :
                /\ mv.states_by_chain_length[c] # {}
                /\ \A k \in mv.states_by_chain_length[c] :
                      /\ k \in DOMAIN mv.states_by_hash
                      /\ mv.states_by_hash[k].chain_length = c
           /\ \A k \in DOMAIN mv.states_by_hash :
                /\ mv.states_by_hash[k].chain_length \in DOMAIN mv.states_by_chain_length
                /\ k \in mv.states_by_chain_length[mv.states_by_hash[k].chain_length]

\* gc has just run on a store whose two indexes agree, and a pinned id that
\* the scan would have reaped had it been unpinned is still stored
C1_Witness ==
    /\ last.op = "gc"
    /\ C2_IndexConsistent
    /\ \E k \in DOMAIN roots[multiverse[1].roots] :
          /\ k \in Reapable(multiverse[1])
          /\ k \in DOMAIN multiverse[1].states_by_hash

\* C3: the pin table holds an entry for an id if and only if a GCRoot for it is
\* alive, the entry's count is the number of live GCRoots for the id, and drop
\* never reaches unreachable!()
C3_RefCount ==
    /\ panic # "drop: unreachable"
    /\ \A s \in Stores :
          LET t == multiverse[s].roots
          IN \A k \in KnownIds(s) :
                /\ k \in DOMAIN roots[t] <=> CopiesIn(GCRoot(k, t), gcroots) >= 1
                /\ k \in DOMAIN roots[t] => roots[t][k] = CopiesIn(GCRoot(k, t), gcroots)

\* one of two roots on the same id has just been dropped: the id is still
\* pinned, with count 1
C3_Witness ==
    /\ last.op = "drop"
    /\ adds >= 2
    /\ LET t == last.root[1].roots
       IN /\ last.k \in DOMAIN roots[t]
          /\ roots[t][last.k] = 1
          /\ CopiesIn(GCRoot(last.k, t), gcroots) = 1

\* C4: on the single chain of the test, after the gc that follows the add of
\* block i, nr_states() <= SUFFIX_TO_KEEP + floor(log2(i)), for every i >= 1
C4_RetentionBound ==
    (i >= 1 /\ last.op = "gc" /\ pc = "idle") => NrStates(multiverse[1]) <= TestBound(i)

\* the chain is longer than twice the suffix and gc has collected old blocks
C4_Witness ==
    /\ last.op = "gc"
    /\ i > 2 * SUFFIX_TO_KEEP
    /\ NrStates(multiverse[1]) < i + 1
    /\ Cardinality(collected) > SUFFIX_TO_KEEP \div 2

\* the two steps of a call add(k, st) on store s: the map updates, after
\* which adding' holds k and st, and the return, after which last' holds the
\* arguments and the GCRoot
AddMapsStep(s) == pc = "idle" /\ pc' = "add" /\ gc_self' = s
IsAdd(s) == pc = "add" /\ pc' = "idle" /\ gc_self = s /\ last'.op = "add"

InBucket(mv, c, k) ==
    c \in DOMAIN mv.states_by_chain_length /\ k \in mv.states_by_chain_length[c]

\* what the map updates of every add leave alone: the pin table, the GCRoots,
\* and everything of any other id
MapsFrame(s) ==
    LET k == adding'[1].k
        mv == multiverse[s]
    IN /\ roots' = roots
       /\ gcroots' = gcroots
       /\ \A j \in (KnownIds(s) \cup KnownIds(s)') \ {k} :
             /\ Get(multiverse'[s], j) = Get(mv, j)
             /\ \A c \in DOMAIN mv.states_by_chain_length \cup DOMAIN multiverse'[s].states_by_chain_length :
                   InBucket(multiverse'[s], c, j) <=> InBucket(mv, c, j)

\* what every add does when it returns: it returns a GCRoot for the k it was
\* given on the store's own table, raises the pin count of k by one, and
\* changes no snapshot, no bucket and no pin count of any other id
AddFrame(s) ==
    LET k == adding[1].k
        t == multiverse[s].roots
    IN /\ last'.k = k
       /\ last'.st = Some(adding[1].st)
       /\ last'.root = Some(GCRoot(k, t))
       /\ Deref(last'.root[1]) = k
       /\ gcroots' = gcroots (+) SetToBag({GCRoot(k, t)})
       /\ roots'[t][k] = PinCount(t, k) + 1
       /\ multiverse' = multiverse
       /\ \A j \in (KnownIds(s) \cup KnownIds(s)') \ {k} : PinCount(t, j)' = PinCount(t, j)

\* C5: add(block_id, snapshot) of a block_id that is not stored makes
\* get(block_id) return that snapshot, puts block_id in the bucket of the
\* snapshot's chain length, raises nr_states() by 1, returns a GCRoot that
\* derefs to block_id and raises its pin count by 1, and changes nothing of
\* any other id
C5_AddNew ==
    [][\A s \in Stores :
         /\ (AddMapsStep(s) /\ Get(multiverse[s], adding'[1].k) = None) =>
               /\ Get(multiverse'[s], adding'[1].k) = Some(adding'[1].st)
               /\ InBucket(multiverse'[s], adding'[1].st.chain_length, adding'[1].k)
               /\ NrStates(multiverse'[s]) = NrStates(multiverse[s]) + 1
               /\ MapsFrame(s)
         /\ IsAdd(s) => AddFrame(s)]_vars

\* every add so far stored a new id, the last call was an add, and nothing
\* has been collected
C5_Witness ==
    /\ last.op = "add"
    /\ adds >= 2
    /\ collected = {}
    /\ NrStates(multiverse[1]) = adds
    /\ Get(multiverse[1], last.k) = last.st

\* C6: add(block_id, snapshot2) of a block_id that is stored leaves
\* get(block_id), nr_states() and both indexes as they were, and still returns
\* a GCRoot for block_id and raises its pin count by 1
C6_FirstWriteWins ==
    [][\A s \in Stores :
         /\ (AddMapsStep(s) /\ Get(multiverse[s], adding'[1].k) # None) =>
               /\ Get(multiverse'[s], adding'[1].k) = Get(multiverse[s], adding'[1].k)
               /\ NrStates(multiverse'[s]) = NrStates(multiverse[s])
               /\ multiverse'[s].states_by_hash = multiverse[s].states_by_hash
               /\ multiverse'[s].states_by_chain_length = multiverse[s].states_by_chain_length
               /\ MapsFrame(s)
         /\ IsAdd(s) => AddFrame(s)]_vars

\* C7: for every live GCRoot that add of a store returned, get_from_root of
\* that store returns the snapshot stored under the root's id, and no call of
\* get_from_root with such a root has panicked
C7_GetFromRootTotal ==
    /\ \A s \in Stores : \A r \in LiveRoots :
          r.roots = multiverse[s].roots =>
             /\ GetFromRoot(multiverse[s], r).panic = "none"
             /\ GetFromRoot(multiverse[s], r).ret = Get(multiverse[s], Deref(r))
             /\ GetFromRoot(multiverse[s], r).ret # None
    /\ last.op = "get_from_root" =>
          (last.root[1].roots = multiverse[last.self].roots =>
              /\ panic \notin {"get_from_root: assert", "get_from_root: unwrap"}
              /\ last.ret # None)

\* get_from_root has just returned the snapshot of a pinned id that gc would
\* have reaped had it been unpinned, in a store that gc has collected from
C7_Witness ==
    /\ last.op = "get_from_root"
    /\ panic = "none"
    /\ last.ret # None
    /\ collected # {}
    /\ C2_IndexConsistent
    /\ last.k \in Reapable(multiverse[last.self])

\* C8: get_from_root on a store with a GCRoot of another store fails with the
\* assertion and returns no snapshot, also when the store has a snapshot under
\* the same id and the two pin tables have the same contents
C8_ForeignRootFatal ==
    /\ \A s \in Stores : \A r \in LiveRoots :
          r.roots # multiverse[s].roots =>
             GetFromRoot(multiverse[s], r) = [ret |-> None, panic |-> "get_from_root: assert"]
    /\ last.op = "get_from_root" =>
          (last.root[1].roots # multiverse[last.self].roots =>
              /\ panic = "get_from_root: assert"
              /\ last.ret = None)

\* the call with a foreign root has panicked although the store holds a
\* snapshot under the root's id and its pin table equals the root's table
C8_Witness ==
    /\ last.op = "get_from_root"
    /\ panic = "get_from_root: assert"
    /\ last.root[1].roots # multiverse[last.self].roots
    /\ Get(multiverse[last.self], last.k) # None
    /\ roots[multiverse[last.self].roots] = roots[last.root[1].roots]
    /\ last.k \in DOMAIN roots[last.root[1].roots]

\* C9: no call of gc panics, in any state reachable from Multiverse::new(),
\* the new store included
C9_GcNeverFails ==
    panic \notin {"gc: unwrap", "delete: unwrap", "delete: assert", "delete: unreachable"}

\* C10 as stated: once gc has deleted the snapshot of a block id, get(block_id)
\* never returns Some again
C10_CollectedIsTerminal ==
    \A p \in collected : Get(multiverse[p[1]], p[2]) = None

\* C10, amended: a block id that gc deletes is absent after that gc, and stays
\* absent until add is called with that block id again; that add stores the
\* snapshot it is given
C10_CollectedUntilAdd ==
    [][\A s \in Stores :
         /\ \A p \in collected' \ collected : Get(multiverse'[p[1]], p[2]) = None
         /\ \A p \in collected :
               (p[1] = s /\ Get(multiverse[s], p[2]) = None /\ Get(multiverse'[s], p[2]) # None) =>
                  /\ AddMapsStep(s)
                  /\ adding'[1].k = p[2]
                  /\ Get(multiverse'[s], p[2]) = Some(adding'[1].st)]_vars

\* an id that gc had deleted has just been added again and is stored
C10_Witness ==
    /\ last.op = "add"
    /\ <<last.self, last.k>> \in collected
    /\ Get(multiverse[last.self], last.k) = last.st
    /\ C2_IndexConsistent

\* ---- the claims on the utxo ledger ------------------------------------------
\* the output indices Ledger l holds for tid
IndicesOf(l, tid) == {index \in TransactionIndex : LedgerGet(l, tid, index) # None}

\* C11: in every Ledger reachable from Ledger::new() by successful add, remove
\* and remove_multiple calls (empty lists included), a transaction id is a key
\* of the outer map if and only if its inner map is not empty
C11_OuterEntryInvariant ==
    \A v \in DOMAIN ledgers : \A tid \in Tids :
        HamtLookup(ledgers[v], tid) # None <=> IndicesOf(ledgers[v], tid) # {}

\* the receiver of the last call and, when the call returned Ok, the Ledger it returned
Receiver == ledgers[ucall.self]
Returns == ucall.res.ledger[1]
ReturnedOk == ucall.res.panic = "none" /\ ucall.res.err = "none" /\ ucall.res.ledger # None
ReturnedErr(e) ==
    ucall.res = [panic |-> "none", err |-> e, ledger |-> None, outputs |-> << >>]

\* what get returns for an output that is stored
EntryOf(tid, index, output) ==
    Some([fragment_id |-> tid, output_index |-> index, output |-> output])

\* get(tid', j) is the same on l2 as on l1, for every (tid', j) but (tid, i) with i in skip
SameBut(l1, l2, tid, skip) ==
    \A t \in Tids : \A j \in TransactionIndex :
        (t # tid \/ j \notin skip) => LedgerGet(l2, t, j) = LedgerGet(l1, t, j)

\* the remove half of C12: a successful remove(tid, i) returns the output
\* stored at (tid, i) and a Ledger without (tid, i), every other (tid', j)
\* as it was, and without tid when i was its last index
RemoveRoundTrip ==
    (ucall.op = "remove" /\ ReturnedOk) =>
        /\ ucall.res.outputs = << HamtLookup(Receiver, ucall.tid)[1][ucall.arg] >>
        /\ LedgerGet(Returns, ucall.tid, ucall.arg) = None
        /\ SameBut(Receiver, Returns, ucall.tid, {ucall.arg})
        /\ IndicesOf(Receiver, ucall.tid) = {ucall.arg} => HamtLookup(Returns, ucall.tid) = None

\* C12 as stated: after add(tid, outs) on a Ledger without tid, get(tid, i)
\* returns o for every (i, o) of outs; and the remove half
C12_RoundTripEveryPair ==
    /\ (ucall.op = "add" /\ ReturnedOk) =>
          \A n \in 1..Len(ucall.arg) :
              LedgerGet(Returns, ucall.tid, ucall.arg[n][1])
                  = EntryOf(ucall.tid, ucall.arg[n][1], ucall.arg[n][2])
    /\ RemoveRoundTrip

\* the last pair of outs with index i
LastWith(outs, index) == outs[Max({n \in 1..Len(outs) : outs[n][1] = index})]

\* C12, amended: after add(tid, outs) on a Ledger without tid, get(tid, i)
\* returns, for every index i that occurs in outs, the output of the last pair
\* of outs with index i (every (i, o) of outs when no index occurs twice); and
\* the remove half
C12_RoundTripLastPair ==
    /\ (ucall.op = "add" /\ ReturnedOk) =>
          \A n \in 1..Len(ucall.arg) :
              LedgerGet(Returns, ucall.tid, ucall.arg[n][1])
                  = EntryOf(ucall.tid, ucall.arg[n][1], LastWith(ucall.arg, ucall.arg[n][1])[2])
    /\ RemoveRoundTrip

\* remove has just taken one of the two indices of tid: the other one is
\* still returned by get, with the output that add was given for it
C12_Witness ==
    /\ ucall.op = "remove"
    /\ ReturnedOk
    /\ Cardinality(IndicesOf(Receiver, ucall.tid)) = 2
    /\ \E j \in IndicesOf(Returns, ucall.tid) :
          /\ j # ucall.arg
          /\ LedgerGet(Returns, ucall.tid, j) = LedgerGet(Receiver, ucall.tid, j)
    /\ LedgerGet(Returns, ucall.tid, ucall.arg) = None

\* C13: add(tid, outs) on a Ledger that has an entry for tid returns
\* Err(AlreadyExists) and no Ledger, for every outs, and the receiver is as it was
C13_NoOverwrite ==
    (ucall.op = "add" /\ HamtLookup(Receiver, ucall.tid) # None) =>
        /\ ReturnedErr("AlreadyExists")
        /\ panic = "none"
        /\ Receiver = seen[ucall.self]

\* C14: remove(tid, index) returns Err(TransactionNotFound) when tid has no
\* entry and Err(IndexNotFound) when tid has an entry without that index, for
\* every index of the index type; it does not panic and the receiver is as it was
C14_RemoveErrors ==
    ucall.op = "remove" =>
        /\ HamtLookup(Receiver, ucall.tid) = None =>
              ReturnedErr("TransactionNotFound") /\ panic = "none" /\ Receiver = seen[ucall.self]
        /\ (HamtLookup(Receiver, ucall.tid) # None /\ ucall.arg \notin IndicesOf(Receiver, ucall.tid)) =>
              ReturnedErr("IndexNotFound") /\ panic = "none" /\ Receiver = seen[ucall.self]

\* the index list names an index that tid's entry lacks when it is processed:
\* one the entry does not hold, or one the list has named before
SomeMissing(l, tid, indices) ==
    \/ \E n \in 1..Len(indices) : indices[n] \notin IndicesOf(l, tid)
    \/ \E n, m \in 1..Len(indices) : n # m /\ indices[n] = indices[m]

\* C15: remove_multiple(tid, indices) returns an error, no Ledger and no outputs
\* and leaves the receiver as it was when tid is absent or a listed index is
\* missing; otherwise it returns a Ledger without exactly the listed indices of
\* tid, and their outputs in list order
C15_AllOrNothing ==
    ucall.op = "remove_multiple" =>
        IF HamtLookup(Receiver, ucall.tid) = None \/ SomeMissing(Receiver, ucall.tid, ucall.arg)
        THEN /\ panic = "none"
             /\ ucall.res.err \in {"TransactionNotFound", "IndexNotFound"}
             /\ ucall.res.ledger = None
             /\ ucall.res.outputs = << >>
             /\ Receiver = seen[ucall.self]
        ELSE /\ ReturnedOk
             /\ IndicesOf(Returns, ucall.tid)
                  = IndicesOf(Receiver, ucall.tid) \ {ucall.arg[n] : n \in 1..Len(ucall.arg)}
             /\ SameBut(Receiver, Returns, ucall.tid, {ucall.arg[n] : n \in 1..Len(ucall.arg)})
             /\ ucall.res.outputs = [n \in 1..Len(ucall.arg) |-> Receiver[ucall.tid][ucall.arg[n]]]

RECURSIVE BelowKeepFrom(_, _, _)
BelowKeepFrom(keys, L, keep_from) ==
    IF keys = {} THEN {}
    ELSE LET c == Min(keys)
         IN IF c + SUFFIX_TO_KEEP >= L THEN {}
            ELSE IF c >= keep_from
                 THEN BelowKeepFrom(keys \ {c}, L, c + (L - c) \div 2)
                 ELSE {c} \cup BelowKeepFrom(keys \ {c}, L, keep_from)

\* the maximum chain length present in a store that is not empty
Longest(mv) == Max(DOMAIN mv.states_by_chain_length)

\* the members without a pin-table entry of the buckets the pass goes below
Marked(mv, tbl) ==
    UNION {{k \in mv.states_by_chain_length[c] : k \notin DOMAIN tbl} :
              c \in BelowKeepFrom(DOMAIN mv.states_by_chain_length, Longest(mv), 0)}

\* the steps of gc: the scan that ends the call or hands over to the deletes,
\* and the deletes
ScanStep == pc = "idle" /\ panic' = "none" /\ (pc' = "gc" \/ (last'.op = "gc" /\ last' # last))
DeleteStep == pc = "gc" /\ pc' = "idle"
GarbageSet(g) == {g[n] : n \in 1..Len(g)}

\* C17: the scan of gc marks exactly the unpinned members of the buckets below
\* keep_from on the walk that stops at the first bucket within SUFFIX_TO_KEEP
\* of the maximum, and after gc the store is the store before without the
\* marked ids, in both indexes
C17_GcMatchesRetention ==
    [][/\ ScanStep =>
            GarbageSet(garbage') = Marked(multiverse[1], roots[multiverse[1].roots])
       /\ DeleteStep =>
            LET mv == multiverse[gc_self]
                after == multiverse'[gc_self]
                G == GarbageSet(garbage)
            IN /\ panic' = "none"
               /\ DOMAIN after.states_by_hash = DOMAIN mv.states_by_hash \ G
               /\ \A k \in DOMAIN after.states_by_hash : after.states_by_hash[k] = mv.states_by_hash[k]
               /\ \A c \in DOMAIN mv.states_by_chain_length \cup DOMAIN after.states_by_chain_length :
                     \A k \in KnownIds(gc_self) :
                         InBucket(after, c, k) <=> (InBucket(mv, c, k) /\ k \notin G)]_vars

\* C18: gc removes no snapshot of chain length c with c + SUFFIX_TO_KEEP >= L,
\* L the maximum chain length present when gc starts, pinned or not, and the
\* maximum chain length present does not decrease across gc
C18_SuffixRetained ==
    [][DeleteStep =>
          LET mv == multiverse[gc_self]
              after == multiverse'[gc_self]
          IN /\ \A k \in DOMAIN mv.states_by_hash :
                   mv.states_by_hash[k].chain_length + SUFFIX_TO_KEEP >= Longest(mv)
                       => Get(after, k) = Get(mv, k)
             /\ DOMAIN after.states_by_chain_length # {}
             /\ Longest(after) >= Longest(mv)]_vars

\* C19: an id whose last live GCRoot has been dropped has no pin-table entry;
\* a gc that starts then marks it if its snapshot's bucket is below the
\* keep_from of the pass and farther than SUFFIX_TO_KEEP from the maximum, and
\* has removed its snapshot when it ends; an id that has a live root when gc
\* starts is not marked and is still stored when gc ends
C19_ReleaseMakesEligible ==
    [][/\ \A k \in BlockIds :
             CopiesIn(GCRoot(k, 1), gcroots') = 0 => k \notin DOMAIN roots'[1]
       /\ ScanStep =>
             \A k \in DOMAIN multiverse[1].states_by_hash :
                 IF k \in DOMAIN roots[1]
                 THEN k \notin GarbageSet(garbage')
                 ELSE multiverse[1].states_by_hash[k].chain_length
                          \in BelowKeepFrom(DOMAIN multiverse[1].states_by_chain_length,
                                            Longest(multiverse[1]), 0)
                      => k \in GarbageSet(garbage')
       /\ DeleteStep =>
             \A k \in DOMAIN multiverse[gc_self].states_by_hash :
                 Get(multiverse'[gc_self], k) = None <=> k \in GarbageSet(garbage)]_vars

\* ---- the claim on the lock ------------------------------------------------------
\* the threads inside a block that holds the write lock
InWrite == {t \in Threads : th[t].pc \in {"new_load", "new_store", "new_unlock",
                                          "drop_load", "drop_store", "drop_unlock"}}
\* the threads inside a block that holds the read lock
InRead == {t \in Threads : th[t].pc \in {"gc_scan", "gc_unlock"}}

\* the GCRoots of k that count as live: those handed out and not yet given to
\* drop, those whose drop has not yet written the table, and the one that
\* GCRoot::new has counted and not yet returned
Live(k) ==
    CopiesIn(GCRoot(k, 1), gcroots)
    + Cardinality({t \in Releasers : th[t].hash = k /\ th[t].pc \in {"drop_lock", "drop_load", "drop_store"}})
    + (IF th[Writer].hash = k /\ th[Writer].pc = "new_unlock" THEN 1 ELSE 0)

\* C20: with GCRoots dropped on several threads while one writer thread runs
\* add and gc, every read-modify-write of a pin count runs with the write lock
\* held by that thread alone, the count of every id equals its number of live
\* roots in every reachable state, drop never finds its entry vacant, and
\* while gc holds the read lock no thread is inside an update of the table
C20_AtomicPins ==
    /\ Cardinality(InWrite) <= 1
    /\ \A t \in InWrite : rw.writer = t /\ rw.readers = {}
    /\ InRead # {} => InWrite = {} /\ rw.writer = NoThread /\ InRead = rw.readers
    /\ \A k \in BlockIds : PinCount(1, k) = Live(k)
    /\ panic # "drop: unreachable"
    /\ ~rw.poisoned

\* a thread is between reading and writing the count of an id, which is 2,
\* while another thread waits for the lock to drop the other root of the same
\* id, after a gc that has deleted snapshots
C20_Witness ==
    \E t, u \in Releasers :
        /\ t # u
        /\ th[t].pc = "drop_store"
        /\ th[t].cnt = 2
        /\ rw.writer = t
        /\ th[u].pc = "drop_lock"
        /\ th[u].hash = th[t].hash
        /\ collected # {}

\* the threads that ask for the pin-table lock, for writing and for reading
AsksWrite == {t \in Threads : th[t].pc \in {"new_lock", "drop_lock"}}
AsksRead == {t \in Threads : th[t].pc = "gc_lock"}

\* the threads in the middle of add, gc or a drop
Busy == {t \in Threads : th[t].pc \notin {"idle", Unwound}}

\* thread t holds the lock
Holds(t) == rw.writer = t \/ t \in rw.readers

\* thread t can take its next step: it does not wait, or the lock it waits for
\* is free
CanStep(t) ==
    /\ t \in AsksWrite => WriteLockFree(rw)
    /\ t \in AsksRead => ReadLockFree(rw)

\* C21: no operation blocks for ever.  With one writer thread that calls add
\* and gc, and releaser threads that drop GCRoots, every thread taking the
\* steps it can go on taking: no thread asks for the pin-table lock while it
\* holds it; while an operation is begun some thread in an operation can step
\* (no deadlock); the write lock asked for in GCRoot::new and in drop and the
\* read lock asked for in gc are granted in the end; every add and gc that
\* has begun ends (a gc that panics has not blocked), and every drop that has
\* begun returns
C21_NoBlocking ==
    /\ [](\A t \in AsksWrite \cup AsksRead : ~Holds(t))
    /\ [](Busy # {} => \E t \in Busy : CanStep(t))
    /\ (th[Writer].pc = "new_lock") ~> (th[Writer].pc = "new_load")
    /\ (th[Writer].pc = "gc_lock") ~> (th[Writer].pc = "gc_scan")
    /\ (Writer \in Busy) ~> (Writer \notin Busy)
    /\ \A t \in Releasers :
          /\ (th[t].pc = "drop_lock") ~> (th[t].pc = "drop_load")
          /\ (th[t].pc = "drop_lock") ~> (th[t].pc = "idle")

\* C22: in every Ledger reached by successful add, remove and remove_multiple
\* calls every stored output index is in [0, 255): an add that succeeds was
\* given only indices below 255, and index 255 is never stored
C22_IndexRange ==
    /\ \A v \in DOMAIN ledgers : \A tid \in Tids : IndicesOf(ledgers[v], tid) \subseteq 0..254
    /\ (ucall.op = "add" /\ ReturnedOk) =>
          \A n \in 1..Len(ucall.arg) : ucall.arg[n][1] < 255

\* the output list names an index more than once
HasDuplicate(outs) == \E m, n \in 1..Len(outs) : m < n /\ outs[m][1] = outs[n][1]

\* C23: add(tid, outs) with an output list that names an index more than once
\* (on a Ledger without tid, the list shorter than 255) succeeds; get(tid, i)
\* on the returned Ledger gives, for every index i of the list, the output of
\* the last pair with index i; nothing of the earlier pairs is kept: tid has
\* exactly the indices of the list, fewer than the list has pairs
C23_DuplicatesKeepLast ==
    (/\ ucall.op = "add"
     /\ HasDuplicate(ucall.arg)
     /\ Len(ucall.arg) < 255
     /\ HamtLookup(Receiver, ucall.tid) = None) =>
        /\ ReturnedOk
        /\ panic = "none"
        /\ \A n \in 1..Len(ucall.arg) :
              LedgerGet(Returns, ucall.tid, ucall.arg[n][1])
                  = EntryOf(ucall.tid, ucall.arg[n][1],
                            ucall.arg[Max({m \in 1..Len(ucall.arg) : ucall.arg[m][1] = ucall.arg[n][1]})][2])
        /\ IndicesOf(Returns, ucall.tid) = {ucall.arg[n][1] : n \in 1..Len(ucall.arg)}
        /\ Cardinality(IndicesOf(Returns, ucall.tid)) < Len(ucall.arg)
        /\ SameBut(Receiver, Returns, ucall.tid, TransactionIndex)

\* add was given two outputs for one index and get returns the second, not
\* the first
C23_Witness ==
    /\ ucall.op = "add"
    /\ ReturnedOk
    /\ Len(ucall.arg) = 2
    /\ ucall.arg[1][1] = ucall.arg[2][1]
    /\ ucall.arg[1][2] # ucall.arg[2][2]
    /\ LedgerGet(Returns, ucall.tid, ucall.arg[1][1])
          = EntryOf(ucall.tid, ucall.arg[1][1], ucall.arg[2][2])

\* the entries that iter() yields on l, the outputs that values() yields on l,
\* and the pairs that get finds on l
Entries(l) == IterCollect(LedgerIter(l))
Values(l) == ValuesCollect(LedgerValues(l))
Stored(l) == {<<tid, index>> \in Tids \X TransactionIndex : LedgerGet(l, tid, index) # None}

\* C24: on every Ledger value iter() comes to an end and yields the entry
\* (tid, index, output) once for each pair with get(tid, index) = Some(output)
\* and nothing else; values() yields the outputs of the same entries, in the
\* same order; an enumeration that a caller has made is what iter() or
\* values() yields when called again on that Ledger
C24_EnumerationAgreesWithGet ==
    /\ \A v \in DOMAIN ledgers :
          LET l == ledgers[v]
              es == Entries(l)
          IN /\ \A p \in Stored(l) :
                    Cardinality({n \in 1..Len(es) : << es[n] >> = LedgerGet(l, p[1], p[2])}) = 1
             /\ \A n \in 1..Len(es) :
                    LedgerGet(l, es[n].fragment_id, es[n].output_index) = << es[n] >>
             /\ Len(es) = Cardinality(Stored(l))
             /\ Values(l) = [n \in 1..Len(es) |-> es[n].output]
    /\ ucall.op = "iter" => ucall.res.outputs = Entries(Receiver)
    /\ ucall.op = "values" => ucall.res.outputs = Values(Receiver)

\* iter() has gone through a Ledger with two transactions, one of them with
\* two outputs, and has yielded its three entries, not in the order of the
\* transaction ids
C24_Witness ==
    /\ ucall.op = "iter"
    /\ Len(ucall.res.outputs) = 3
    /\ \A tid \in Tids : \E n \in 1..3 : ucall.res.outputs[n].fragment_id = tid
    /\ ucall.res.outputs[1].fragment_id > ucall.res.outputs[3].fragment_id
    /\ Cardinality(Stored(Receiver)) = 3

\* remove(tid, i1), ..., remove(tid, in) applied one after another, from l
\* on, each to the Ledger the one before returned: what the first call that
\* fails ends with, or Ok with the last Ledger and the outputs in call order
RECURSIVE RemoveEach(_, _, _, _)
RemoveEach(l, tid, indices, outputs) ==
    IF indices = << >> THEN Ok(l, outputs)
    ELSE LET r == LedgerRemove(l, tid, Head(indices))
         IN IF r.ledger = None THEN r
            ELSE RemoveEach(r.ledger[1], tid, Tail(indices), outputs \o r.outputs)

\* C27: when remove_multiple(tid, [i1, ..., in]) succeeds, the Ledger and the
\* outputs it returns are those of remove(tid, i1), ..., remove(tid, in)
\* applied one after another to the same Ledger, and when the list names all
\* indices of tid neither Ledger has an entry for tid
C27_RemoveMultipleIsRepeatedRemove ==
    (ucall.op = "remove_multiple" /\ ReturnedOk) =>
        LET each == RemoveEach(Receiver, ucall.tid, ucall.arg, << >>)
        IN /\ each.ledger = ucall.res.ledger
           /\ each.outputs = ucall.res.outputs
           /\ each.panic = "none" /\ each.err = "none"
           /\ IndicesOf(Receiver, ucall.tid) = {ucall.arg[n] : n \in 1..Len(ucall.arg)} =>
                 /\ HamtLookup(Returns, ucall.tid) = None
                 /\ HamtLookup(each.ledger[1], ucall.tid) = None

\* what a call of gc leaves of store mv with pin table tbl: every outcome of
\* the scan followed by the deletes
GcOutcomes(mv, tbl) ==
    {IF o.panic # "none" THEN [mv |-> mv, panic |-> o.panic]
     ELSE [mv |-> DeleteAll(mv, o.garbage).mv, panic |-> DeleteAll(mv, o.garbage).panic] :
        o \in GcScan(mv, tbl)}

\* C25: gc is idempotent.  In every reachable state of the store, with the
\* pin table as it is and no call in between, a gc that follows a gc that has
\* returned returns too and leaves the store as the first gc left it: the
\* same snapshots by id and the same buckets
C25_GcIdempotent ==
    pc = "idle" =>
        \A first \in GcOutcomes(multiverse[1], roots[1]) :
            first.panic = "none" =>
                \A second \in GcOutcomes(first.mv, roots[1]) :
                    second.panic = "none" /\ second.mv = first.mv

\* the members of the bucket with the smallest chain length of store mv
OldestBucket(mv) ==
    IF DOMAIN mv.states_by_chain_length = {} THEN {}
    ELSE mv.states_by_chain_length[Min(DOMAIN mv.states_by_chain_length)]

\* C26: the oldest bucket is never collected.  The deletes of a gc remove no
\* member of the bucket with the smallest chain length of the store, pinned or
\* not; and a snapshot of chain length 0, once added, is returned by get
\* after every later add, gc and release of a root
C26_OldestBucketKept ==
    [][/\ DeleteStep =>
            \A k \in OldestBucket(multiverse[1]) : Get(multiverse'[1], k) = Get(multiverse[1], k)
       /\ \A k \in BlockIds :
            Get(multiverse[1], k) = Some(State(0)) => Get(multiverse'[1], k) # None]_vars

\* c + SUFFIX_TO_KEEP >= l over the integers, for u32 c and l
SumReaches(c, l) ==
    IF c[1] > l[1] THEN TRUE
    ELSE IF c[1] < l[1] - 1 THEN FALSE
    ELSE (c[1] - l[1]) * Half + c[2] + SUFFIX_TO_KEEP >= l[2]

\* C28: for every u32 chain length c and every maximum L >= c, the suffix test
\* of gc gives what c + SUFFIX_TO_KEEP >= L gives over the integers and does
\* not panic: the 32-bit sum c + SUFFIX_TO_KEEP does not overflow, also for
\* chain lengths within SUFFIX_TO_KEEP of the maximum of u32
C28_SuffixTestExact ==
    arith.res # None =>
        /\ panic = "none"
        /\ arith.res = Some(SumReaches(arith.chain_length, arith.longest_chain))
        /\ ~AddU32(arith.chain_length, U32(SUFFIX_TO_KEEP)).overflow

====
